---- MODULE Spec2Model ----
(***************************************************************************)
(* Model of the AI Athlete backend (app/main.py, app/focus_rules.py,       *)
(* app/pose_overlay.py): the in-memory job store, the background           *)
(* process_job pipeline, the status query, and the pure helpers they use.  *)
(*                                                                         *)
(* Conventions                                                             *)
(*  - A Python str that the code inspects character by character (lower,   *)
(*    strip) is a sequence of one-character strings.                       *)
(*  - A Python float is a fixed-point integer in units of 0.005, so that   *)
(*    the mean of two values given in hundredths is exact: FP(x) is the    *)
(*    model value of x hundredths (170.0 is FP(17000), 0.10 is FP(10)).    *)
(*  - An optional value is <<>> (None) or <<v>>.                           *)
(*  - A JSON / Python value whose type matters is a record with a tag t.   *)
(***************************************************************************)
EXTENDS Integers, Sequences, FiniteSets, TLC

VARIABLES
    JOBS,      \* main.py JOBS: job id -> [status, object_path, result]
    pc,        \* per job id: position of its process_job task
    args,      \* per job id: arguments handed to background_tasks.add_task
    loc,       \* per job id: the local variables of its process_job call
    ran,       \* per job id: the stages process_job has started, in order
    files,     \* local filesystem: the working files that exist under /tmp
    blobs,     \* bucket: the result objects that have been uploaded
    rd,        \* the thread serving GET /status/{job_id}
    call       \* the last call of a pure helper: its arguments and return

vars == <<JOBS, pc, args, loc, ran, files, blobs, rd, call>>

----------------------------------------------------------------------------
(* Values *)

None == <<>>
Some(v) == <<v>>

PyNone == [t |-> "none"]
PyStr(s) == [t |-> "str", s |-> s]
PyInt(n) == [t |-> "int", n |-> n]

\* Python truthiness of a JSON value: None, "" and 0 are falsy.
Truthy(v) ==
    CASE v.t = "none" -> FALSE
      [] v.t = "str" -> v.s # <<>>
      [] v.t = "int" -> v.n # 0

FP(hundredths) == 2 * hundredths

----------------------------------------------------------------------------
(* str.lower and str.strip *)

Uppers == <<"A","B","C","D","E","F","G","H","I","J","K","L","M",
            "N","O","P","Q","R","S","T","U","V","W","X","Y","Z">>
Lowers == <<"a","b","c","d","e","f","g","h","i","j","k","l","m",
            "n","o","p","q","r","s","t","u","v","w","x","y","z">>

Whitespace == {" ", "\t", "\n", "\r"}

LowerOf ==
    [c \in {Uppers[i] : i \in DOMAIN Uppers} |->
        Lowers[CHOOSE i \in DOMAIN Uppers : Uppers[i] = c]]

UpperOf ==
    [c \in {Lowers[i] : i \in DOMAIN Lowers} |->
        Uppers[CHOOSE i \in DOMAIN Lowers : Lowers[i] = c]]

LowerChar(c) == IF c \in DOMAIN LowerOf THEN LowerOf[c] ELSE c

UpperChar(c) == IF c \in DOMAIN UpperOf THEN UpperOf[c] ELSE c

StrLower(s) == [i \in DOMAIN s |-> LowerChar(s[i])]

StrUpper(s) == [i \in DOMAIN s |-> UpperChar(s[i])]

RECURSIVE LStrip(_)
LStrip(s) ==
    IF s # <<>> /\ Head(s) \in Whitespace THEN LStrip(Tail(s)) ELSE s

RECURSIVE RStrip(_)
RStrip(s) ==
    IF s # <<>> /\ s[Len(s)] \in Whitespace
    THEN RStrip(SubSeq(s, 1, Len(s) - 1))
    ELSE s

StrStrip(s) == RStrip(LStrip(s))

\* Python seq[:n] for any integer n (a negative n counts from the end).
SliceTo(seq, n) ==
    IF n >= 0
    THEN SubSeq(seq, 1, IF n < Len(seq) THEN n ELSE Len(seq))
    ELSE SubSeq(seq, 1, IF Len(seq) + n > 0 THEN Len(seq) + n ELSE 0)

----------------------------------------------------------------------------
(* Words used as sports and focuses *)

tennis == <<"t","e","n","n","i","s">>
soccer == <<"s","o","c","c","e","r">>
running == <<"r","u","n","n","i","n","g">>
unknown == <<"u","n","k","n","o","w","n">>
swing == <<"s","w","i","n","g">>
footwork == <<"f","o","o","t","w","o","r","k">>
preparation == <<"p","r","e","p","a","r","a","t","i","o","n">>
serve == <<"s","e","r","v","e">>

----------------------------------------------------------------------------
(* focus_rules.py *)

RECOMMENDATIONS_DB ==
    [s \in {tennis} |->
        [f \in {swing, footwork, preparation} |->
            CASE f = swing ->
                   << <<"Keep elbow high through contact to avoid power loss.">>,
                      <<"Brush up on the ball for more topspin (wrist snap).">>,
                      <<"Finish over the shoulder for consistent follow-through.">> >>
              [] f = footwork ->
                   << <<"Add a split step before opponent contact for quicker reactions.">>,
                      <<"Shorten recovery steps and stay centered after the shot.">>,
                      <<"Transfer weight to the front foot at contact for balance.">> >>
              [] f = preparation ->
                   << <<"Coil shoulders ~90 deg on takeback to load torque.">>,
                      <<"Lower ready position to improve anticipation.">>,
                      <<"Check grip (semi-western recommended for topspin).">> >> ]]

GenericTip == <<"General tip: keep movements controlled and repeatable.">>

NoTipsFor(focus) == <<"No specific tips for '", focus, "'. Try another focus.">>

Returned(v) == [ok |-> TRUE, val |-> v]
Raised(cls, msg) == [ok |-> FALSE, cls |-> cls, msg |-> msg]

\* (x or "").lower().strip(): a falsy x becomes "", and a truthy x that is
\* not a str has no .lower (AttributeError).
NormKey(x) ==
    IF ~Truthy(x) THEN Returned(<<>>)
    ELSE IF x.t = "str" THEN Returned(StrStrip(StrLower(x.s)))
    ELSE Raised("AttributeError", "object has no attribute 'lower'")

Enumerate(tips) == [i \in DOMAIN tips |-> [id |-> i - 1, text |-> tips[i]]]

FocusLookupSkipsFocusCheck(sport, focus, limit) ==
    IF sport \notin DOMAIN RECOMMENDATIONS_DB
    THEN Returned(<< [id |-> 0, text |-> GenericTip] >>)
    ELSE IF focus \notin DOMAIN RECOMMENDATIONS_DB[sport]
    THEN Returned(<<>>)
    ELSE Returned(Enumerate(SliceTo(RECOMMENDATIONS_DB[sport][focus], limit)))

FocusLookup(sport, focus, limit) ==
    IF sport \notin DOMAIN RECOMMENDATIONS_DB
    THEN Returned(<< [id |-> 0, text |-> GenericTip] >>)
    ELSE IF focus \notin DOMAIN RECOMMENDATIONS_DB[sport]
    THEN Returned(<< [id |-> 0, text |-> NoTipsFor(focus)] >>)
    ELSE Returned(Enumerate(SliceTo(RECOMMENDATIONS_DB[sport][focus], limit)))

get_focus_recommendations(sport, focus, limit) ==
    LET s == NormKey(sport)
        f == NormKey(focus)
    IN  IF ~s.ok THEN s
        ELSE IF ~f.ok THEN f
        ELSE FocusLookup(s.val, f.val, limit)

----------------------------------------------------------------------------
(* main.py: simple_auto_sport *)

\* width / float(height or 1) as the exact ratio <<numerator, denominator>>.
\* The literals 0.8 and 1.6 are the doubles nearest 4/5 and 8/5, and so is
\* the correctly rounded quotient of two frame dimensions in that ratio, so
\* the float comparisons agree with the exact ones at these magnitudes.
AspectRatio(width, height) == <<width, IF height = 0 THEN 1 ELSE height>>

RatLess(p, q) == p[1] * q[2] < q[1] * p[2]

RatLessEq(p, q) == p[1] * q[2] <= q[1] * p[2]

IsPortraitInclusive(ar) == RatLessEq(ar, <<4, 5>>)

IsPortrait(ar) == RatLess(ar, <<4, 5>>)

IsWide(ar) == RatLess(<<8, 5>>, ar)

simple_auto_sport(width, height, fps) ==
    LET ar == AspectRatio(width, height)
    IN  IF IsPortrait(ar) THEN running
        ELSE IF IsWide(ar) THEN soccer
        ELSE tennis

----------------------------------------------------------------------------
(* main.py: the metric rules of process_job (lines 283-321) *)

BendKneesTip == "Bend your knees ~10-20 deg more during preparation for better stability."
ElbowHigherTip == "Keep your hitting elbow higher (closer to shoulder height) through the swing."
WiderBaseTip == "Adopt a wider base (increase ankle distance) to improve balance and power transfer."

\* Python truthiness of an optional float: None and 0.0 are falsy.
FloatTruthy(x) == x # None /\ x[1] # 0

KneeRuleEitherLeg(mc) ==
    /\ FloatTruthy(mc.knee_angle_left_median)
    /\ FloatTruthy(mc.knee_angle_right_median)
    /\ \/ mc.knee_angle_left_median[1] > FP(17000)
       \/ mc.knee_angle_right_median[1] > FP(17000)

KneeRule(mc) ==
    /\ FloatTruthy(mc.knee_angle_left_median)
    /\ FloatTruthy(mc.knee_angle_right_median)
    /\ mc.knee_angle_left_median[1] > FP(17000)
    /\ mc.knee_angle_right_median[1] > FP(17000)

ElbowRule(mc) ==
    mc.elbow_drop_median # None /\ mc.elbow_drop_median[1] > FP(10)

StanceRule(mc) ==
    mc.stance_width_ratio_median # None /\ mc.stance_width_ratio_median[1] < FP(70)

\* lines 284-301: recs after the three rules
MetricRules(mc) ==
    LET r1 == IF KneeRule(mc) THEN <<BendKneesTip>> ELSE <<>>
        r2 == IF ElbowRule(mc) THEN r1 \o <<ElbowHigherTip>> ELSE r1
    IN  IF StanceRule(mc) THEN r2 \o <<WiderBaseTip>> ELSE r2

\* line 320: recs[:3] if recs else []
AnalysisRecommendations(recs) == IF recs # <<>> THEN SliceTo(recs, 3) ELSE <<>>

MetricRecommendations(mc) == AnalysisRecommendations(MetricRules(mc))

----------------------------------------------------------------------------
(* main.py: _median, draw_pose_overlay *)

\* A landmark is a point <<x, y>> of a grid.  _dist and the cosine are
\* floating-point values of finite precision: a distance is rounded to the
\* nearest multiple of 1/DistScale, a cosine cut to a multiple of 1/CosScale.
DistScale == 100

CosScale == 5000

MaxCoord == 2

Points == (0 .. MaxCoord) \X (0 .. MaxCoord)

\* math.hypot on each squared grid distance, rounded to the nearest multiple
\* (evaluated once).
Hypot ==
    [d2 \in 0 .. (2 * MaxCoord * MaxCoord) |->
        CHOOSE r \in 0 .. (2 * MaxCoord * DistScale) :
            /\ 4 * d2 * DistScale * DistScale < (2 * r + 1) * (2 * r + 1)
            /\ r = 0 \/ (2 * r - 1) * (2 * r - 1) <= 4 * d2 * DistScale * DistScale]

_dist(a, b) ==
    Hypot[(a[1] - b[1]) * (a[1] - b[1]) + (a[2] - b[2]) * (a[2] - b[2])]

\* CosScale * cos(d degrees) for d = 0 .. 90.
CosQuarter ==
    <<
      5000, 4999, 4997, 4993, 4988, 4981, 4973, 4963, 4951, 4938, 4924, 4908, 4891,
      4872, 4851, 4830, 4806, 4782, 4755, 4728, 4698, 4668, 4636, 4603, 4568, 4532,
      4494, 4455, 4415, 4373, 4330, 4286, 4240, 4193, 4145, 4096, 4045, 3993, 3940,
      3886, 3830, 3774, 3716, 3657, 3597, 3536, 3473, 3410, 3346, 3280, 3214, 3147,
      3078, 3009, 2939, 2868, 2796, 2723, 2650, 2575, 2500, 2424, 2347, 2270, 2192,
      2113, 2034, 1954, 1873, 1792, 1710, 1628, 1545, 1462, 1378, 1294, 1210, 1125,
      1040, 954, 868, 782, 696, 609, 523, 436, 349, 262, 174, 87, 0
    >>

CosDeg == [d \in 0 .. 180 |-> IF d <= 90 THEN CosQuarter[d + 1] ELSE 0 - CosQuarter[181 - d]]

\* math.degrees(math.acos(x)) to the nearest degree; math.acos raises
\* ValueError outside [-1, 1].
acos_degrees(x) ==
    IF x < 0 - CosScale \/ x > CosScale
    THEN Raised("ValueError", "math domain error")
    ELSE Returned(Some(FP(100 * Cardinality(
             {d \in 1 .. 180 : CosDeg[d - 1] + CosDeg[d] > 2 * x}))))

\* The cosine handed to math.acos as it was computed.
Unclamped(cosv) == cosv

\* line 90: cosv = max(-1.0, min(1.0, cosv))
Clamp(cosv) ==
    IF cosv > CosScale THEN CosScale
    ELSE IF cosv < 0 - CosScale THEN 0 - CosScale
    ELSE cosv

_angle(a, b, c) ==
    LET ab == _dist(a, b)
        cb == _dist(c, b)
        ac == _dist(a, c)
    IN  IF ab = 0 \/ cb = 0 THEN Returned(None)
        ELSE acos_degrees(
                 Clamp(((ab * ab + cb * cb - ac * ac) * CosScale) \div (2 * ab * cb)))

RECURSIVE Insert(_, _)
Insert(x, sorted) ==
    IF sorted = <<>> THEN <<x>>
    ELSE IF x <= Head(sorted) THEN <<x>> \o sorted
    ELSE <<Head(sorted)>> \o Insert(x, Tail(sorted))

RECURSIVE Sorted(_)
Sorted(xs) == IF xs = <<>> THEN <<>> ELSE Insert(Head(xs), Sorted(Tail(xs)))

\* [x for x in xs if x is not None], unwrapped
RECURSIVE Present(_)
Present(xs) ==
    IF xs = <<>> THEN <<>>
    ELSE IF Head(xs) = None THEN Present(Tail(xs))
    ELSE <<Head(xs)[1]>> \o Present(Tail(xs))

\* _median with the even case taking the upper middle value alone.
_medianUpperMiddle(xs) ==
    LET ys == Sorted(Present(xs))
        n == Len(ys)
    IN  IF n = 0 THEN None ELSE Some(ys[(n \div 2) + 1])

\* Values are even multiples of the fixed-point unit, so the mean of the two
\* middle values is exact.
_median(xs) ==
    LET ys == Sorted(Present(xs))
        n == Len(ys)
        m == n \div 2
    IN  IF n = 0 THEN None
        ELSE IF n % 2 = 1 THEN Some(ys[m + 1])
        ELSE Some((ys[m] + ys[m + 1]) \div 2)

\* A decoded frame as the detector and the geometry helpers see it: no body,
\* or the landmark-derived quantities of the frame.
NoBody == [body |-> FALSE]

BodyFrame(kl, kr, ehL, ehR, hip, ankle, arm, horiz, ang) ==
    [body |-> TRUE, knee_L |-> kl, knee_R |-> kr, eh_L |-> ehL, eh_R |-> ehR,
     hip_w |-> hip, ankle_w |-> ankle, arm_len |-> arm, horiz |-> horiz, ang |-> ang]

Max(a, b) == IF a >= b THEN a ELSE b

\* FrameSamples with a frame without a body appending a zero to every list.
FrameSamplesZeroWithoutBody(f) ==
    IF ~f.body THEN [kl |-> <<Some(0)>>, kr |-> <<Some(0)>>,
                     eh |-> <<Some(0)>>, sw |-> <<Some(0)>>]
    ELSE [kl |-> <<f.knee_L>>,
          kr |-> <<f.knee_R>>,
          eh |-> <<Some(IF f.eh_L >= f.eh_R THEN f.eh_L ELSE f.eh_R)>>,
          sw |-> IF f.hip_w # 0 /\ f.hip_w > 0
                 THEN <<Some((f.ankle_w * FP(100)) \div f.hip_w)>>
                 ELSE <<>>]

\* The samples one frame appends to knees_L, knees_R, elbow_height and
\* stance_width (lines 137-174).  RS, RE, LS, LE, LH, RH, LA, RA are non-empty
\* tuples, hence truthy: eh_L, eh_R, hip_w and ankle_w are always computed.
FrameSamples(f) ==
    IF ~f.body THEN [kl |-> <<>>, kr |-> <<>>, eh |-> <<>>, sw |-> <<>>]
    ELSE [kl |-> <<f.knee_L>>,
          kr |-> <<f.knee_R>>,
          eh |-> <<Some(Max(f.eh_L, f.eh_R))>>,
          sw |-> IF f.hip_w # 0 /\ f.hip_w > 0
                 THEN <<Some((f.ankle_w * FP(100)) \div f.hip_w)>>
                 ELSE <<>>]

RECURSIVE Collect(_, _)
Collect(frames, field) ==
    IF frames = <<>> THEN <<>>
    ELSE FrameSamples(Head(frames))[field] \o Collect(Tail(frames), field)

draw_pose_overlay(video) ==
    [frames |-> Len(video.frames),
     width |-> video.width,
     height |-> video.height,
     fps |-> video.fps,
     metrics_calc |->
        [knee_angle_left_median |-> _median(Collect(video.frames, "kl")),
         knee_angle_right_median |-> _median(Collect(video.frames, "kr")),
         elbow_drop_median |-> _median(Collect(video.frames, "eh")),
         stance_width_ratio_median |-> _median(Collect(video.frames, "sw"))]]

----------------------------------------------------------------------------
(* pose_overlay.py: the motion heuristic *)

\* res.pose_landmarks frames only (pose_overlay.py line 121)
RECURSIVE PoseSeries(_)
PoseSeries(frames) ==
    IF frames = <<>> THEN <<>>
    ELSE IF Head(frames).body THEN <<Head(frames)>> \o PoseSeries(Tail(frames))
    ELSE PoseSeries(Tail(frames))

\* IsHit with the thresholds included.
IsHitInclusive(f) ==
    /\ f.arm_len >= FP(20)
    /\ f.horiz >= FP(15)
    /\ FP(6000) <= f.ang /\ f.ang <= FP(12000)

IsHit(f) ==
    /\ f.arm_len > FP(20)
    /\ f.horiz > FP(15)
    /\ FP(6000) < f.ang /\ f.ang < FP(12000)

RECURSIVE CountHits(_)
CountHits(series) ==
    IF series = <<>> THEN 0
    ELSE (IF IsHit(Head(series)) THEN 1 ELSE 0) + CountHits(Tail(series))

\* int(0.2 * total) is total \div 5: the double 0.2 lies just above 1/5, so
\* the product never rounds below an exact multiple.
_guess_sport_from_pose_series(series) ==
    IF series = <<>> THEN unknown
    ELSE IF CountHits(series) >= Max(6, Len(series) \div 5) THEN tennis
    ELSE unknown

----------------------------------------------------------------------------
(* sport_detect.py: detect_sport_from_gcs *)

max_frames == 120

\* The loop reads at most max_frames frames and counts each of them in
\* frames; only a frame with pose_landmarks can add to tennis_score.  The
\* hit test is that of IsHit (line 48); int(frames * 0.2) is frames \div 5.
detect_sport_from_gcs(video) ==
    LET read == SliceTo(video.frames, max_frames)
        frames == Len(read)
        tennis_score == CountHits(PoseSeries(read))
    IN  IF tennis_score >= Max(6, frames \div 5) THEN tennis ELSE unknown

----------------------------------------------------------------------------
(* main.py: coaching_tips *)

coaching_tips(sport) ==
    IF sport = PyStr(tennis)
    THEN [summary |-> "Focus on stance & shoulder rotation.",
          drills |-> <<"Shadow swings x20", "Split-step timing 2x2min",
                       "Serve toss consistency 10x">>]
    ELSE IF sport = PyStr(soccer)
    THEN [summary |-> "Improve stride rhythm and hip-knee alignment.",
          drills |-> <<"Cone dribbles 3x", "Wall passes 50x",
                       "Sprint mechanics A-skips 2x20m">>]
    ELSE [summary |-> "Keep a tall posture and steady cadence.",
          drills |-> <<"Cadence 170-180bpm for 5min", "A/B skips 2x20m",
                       "Ankling 2x20m">>]

----------------------------------------------------------------------------
(* The environment: stored objects, requests, failures of the collaborators *)

MaxJobs == 2

JobIds == 1 .. MaxJobs

HitFrame ==
    BodyFrame(Some(FP(17500)), Some(FP(17800)), FP(5), FP(15),
              FP(20), FP(10), FP(25), FP(20), FP(9000))

\* A wide clip of a forehand rally (a body in six of seven frames) and a
\* portrait clip in which the detector finds nobody.
VideoRally ==
    [width |-> 1920, height |-> 1080, fps |-> 30,
     frames |-> <<HitFrame, HitFrame, HitFrame, NoBody, HitFrame, HitFrame, HitFrame>>]

VideoNoBody ==
    [width |-> 720, height |-> 1280, fps |-> 24, frames |-> <<NoBody, NoBody>>]

Storage ==
    [p \in {"uploads/rally.mp4", "uploads/empty.mp4"} |->
        IF p = "uploads/rally.mp4" THEN VideoRally ELSE VideoNoBody]

\* What draw_pose_overlay returns on each stored video (evaluated once).
Overlaid == [p \in DOMAIN Storage |-> draw_pose_overlay(Storage[p])]

\* The JSON bodies posted to /jobs.
Requests ==
    { [objectPath |-> "uploads/rally.mp4", sport |-> PyStr(tennis),
       focus |-> PyStr(<<" ">> \o swing \o <<" ">>)],
      [objectPath |-> "uploads/rally.mp4", sport |-> PyNone, focus |-> PyNone],
      [objectPath |-> "uploads/empty.mp4", sport |-> PyInt(7), focus |-> PyStr(swing)],
      [objectPath |-> "uploads/missing.mp4", sport |-> PyNone, focus |-> PyNone],
      [objectPath |-> "", sport |-> PyNone, focus |-> PyNone] }

ConnectionAborted == Raised("ConnectionError", "Connection aborted.")
NotFound == Raised("NotFound", "404 No such object")

FetchFailures(path) == IF path \in DOMAIN Storage THEN {ConnectionAborted} ELSE {NotFound}
OverlayFailures == {Raised("cv2.error", "OpenCV: bad frame")}
TranscodeFailures ==
    {Raised("CalledProcessError", "Invalid data found when processing input"),
     Raised("FileNotFoundError", "No such file or directory: 'ffmpeg'")}
UploadFailures == {ConnectionAborted}
SignFailures == {Raised("AttributeError", "you need a private key to sign credentials")}

----------------------------------------------------------------------------
(* State *)

NoResult == [kind |-> "none"]

NoLocals ==
    [meta |-> None, sport |-> None, generic |-> None, focus |-> None,
     focus_tips |-> None, recs |-> None, result |-> None, exc |-> None]

NoArgs == [objectPath |-> "", sport |-> PyNone, focus |-> PyNone]

Idle == [pc |-> "idle"]

NoCall == [fn |-> "none"]

Terminal == {"DONE", "ERROR"}

tmp_in(j) == <<"/tmp/", j, ".mp4">>
tmp_out_raw(j) == <<"/tmp/", j, "_overlay_raw.mp4">>
tmp_out_web(j) == <<"/tmp/", j, "_overlay_web.mp4">>
result_gcs(j) == <<"results/", j, ".mp4">>

Init ==
    /\ JOBS = <<>>
    /\ pc = [j \in JobIds |-> "none"]
    /\ args = [j \in JobIds |-> NoArgs]
    /\ loc = [j \in JobIds |-> NoLocals]
    /\ ran = [j \in JobIds |-> <<>>]
    /\ files = {}
    /\ blobs = {}
    /\ rd = Idle
    /\ call = NoCall

----------------------------------------------------------------------------
(* main.py: create_job *)

\* str(uuid.uuid4()): an id no earlier job has; ids are numbered in the
\* order of creation.
FreshId == Len(JOBS) + 1

create_job(payload) ==
    /\ FreshId \in JobIds
    /\ payload.objectPath # ""           \* else HTTPException(400)
    /\ JOBS' = Append(JOBS, [status |-> "PROCESSING",
                             object_path |-> payload.objectPath,
                             result |-> NoResult])
    /\ args' = [args EXCEPT ![FreshId] = payload]
    /\ pc' = [pc EXCEPT ![FreshId] = "fetch"]
    /\ UNCHANGED <<loc, ran, files, blobs, rd, call>>

----------------------------------------------------------------------------
(* main.py: process_job *)

\* The statement that follows each stage of the try block.
FollowingUploadsRaw(stage) ==
    CASE stage = "fetch" -> "overlay"
      [] stage = "overlay" -> "upload"
      [] stage = "upload" -> "transcode"
      [] stage = "transcode" -> "resolve"
      [] stage = "resolve" -> "sign"
      [] stage = "sign" -> "store_status"
      [] stage = "store_status" -> "store_result"
      [] stage = "store_result" -> "finished"

Following(stage) ==
    CASE stage = "fetch" -> "overlay"
      [] stage = "overlay" -> "transcode"
      [] stage = "transcode" -> "upload"
      [] stage = "upload" -> "resolve"
      [] stage = "resolve" -> "sign"
      [] stage = "sign" -> "store_status"
      [] stage = "store_status" -> "store_result"
      [] stage = "store_result" -> "finished"

\* The classes of the exceptions the stages raise, all subclasses of Exception.
ExceptionClasses ==
    {"CalledProcessError", "ConnectionError", "NotFound", "cv2.error",
     "FileNotFoundError", "AttributeError"}

CaughtOnlyCalledProcessError(e) == e.cls = "CalledProcessError"

\* lines 331 and 337: `except subprocess.CalledProcessError`, `except Exception`
Caught(e) == e.cls = "CalledProcessError" \/ e.cls \in ExceptionClasses

Record(j, stage, ok) == [ran EXCEPT ![j] = Append(@, [stage |-> stage, ok |-> ok])]

\* A stage returns normally: control moves to the next statement.
Proceed(j, stage) ==
    /\ pc' = [pc EXCEPT ![j] = Following(stage)]
    /\ ran' = Record(j, stage, TRUE)

\* A stage raises e: control enters the matching except clause, whose first
\* statement is JOBS[job_id]["status"] = "ERROR" (lines 332, 338).  An
\* exception no clause catches ends the task.
Raise(j, stage, e) ==
    /\ ran' = Record(j, stage, FALSE)
    /\ IF Caught(e)
       THEN /\ JOBS' = [JOBS EXCEPT ![j].status = "ERROR"]
            /\ pc' = [pc EXCEPT ![j] = "error_result"]
            /\ loc' = [loc EXCEPT ![j].exc = Some(e)]
       ELSE /\ pc' = [pc EXCEPT ![j] = "finished"]
            /\ loc' = [loc EXCEPT ![j] = NoLocals]
            /\ UNCHANGED JOBS

\* line 257: bucket.blob(object_path).download_to_filename(tmp_in)
Fetch(j) ==
    /\ pc[j] = "fetch"
    /\ \/ /\ args[j].objectPath \in DOMAIN Storage
          /\ Proceed(j, "fetch")
          /\ files' = files \cup {tmp_in(j)}
          /\ UNCHANGED <<JOBS, loc>>
       \/ \E e \in FetchFailures(args[j].objectPath) :
            /\ Raise(j, "fetch", e)
            /\ UNCHANGED files
    /\ UNCHANGED <<args, blobs, rd, call>>

\* line 261: meta = draw_pose_overlay(tmp_in, tmp_out_raw); the writer opens
\* tmp_out_raw before the frame loop, where the decoder or detector can raise.
Overlay(j) ==
    /\ pc[j] = "overlay"
    /\ files' = files \cup {tmp_out_raw(j)}
    /\ \/ /\ Proceed(j, "overlay")
          /\ loc' = [loc EXCEPT ![j].meta = Some(Overlaid[args[j].objectPath])]
          /\ UNCHANGED JOBS
       \/ \E e \in OverlayFailures : Raise(j, "overlay", e)
    /\ UNCHANGED <<args, blobs, rd, call>>

\* line 265: transcode_to_web_mp4(tmp_out_raw, tmp_out_web)
Transcode(j) ==
    /\ pc[j] = "transcode"
    /\ \/ /\ Proceed(j, "transcode")
          /\ files' = files \cup {tmp_out_web(j)}
          /\ UNCHANGED <<JOBS, loc>>
       \/ \E e \in TranscodeFailures :
            /\ Raise(j, "transcode", e)
            /\ UNCHANGED files
    /\ UNCHANGED <<args, blobs, rd, call>>

\* line 269: bucket.blob(result_gcs).upload_from_filename(tmp_out_web, ...)
Upload(j) ==
    /\ pc[j] = "upload"
    /\ \/ /\ Proceed(j, "upload")
          /\ blobs' = blobs \cup {result_gcs(j)}
          /\ UNCHANGED <<JOBS, loc>>
       \/ \E e \in UploadFailures :
            /\ Raise(j, "upload", e)
            /\ UNCHANGED blobs
    /\ UNCHANGED <<args, files, rd, call>>

\* line 272: sport = provided_sport or simple_auto_sport(...)
ResolveSport(provided_sport, m) ==
    IF Truthy(provided_sport) THEN provided_sport
    ELSE PyStr(simple_auto_sport(m.width, m.height, m.fps))

\* line 278: focus = (provided_focus or "").strip() or None
\* (the focuses posted here are str or null)
ResolveFocus(provided_focus) ==
    LET stripped == IF Truthy(provided_focus) THEN StrStrip(provided_focus.s) ELSE <<>>
    IN  IF stripped # <<>> THEN Some(stripped) ELSE None

\* lines 272-301: sport, coaching tips, focus tips and metric recommendations
Resolve(j) ==
    /\ pc[j] = "resolve"
    /\ \E m \in {loc[j].meta[1]} :
       \E sport \in {ResolveSport(args[j].sport, m)}, focus \in {ResolveFocus(args[j].focus)} :
       \E tips \in {IF Truthy(sport) /\ focus # None
                    THEN get_focus_recommendations(sport, PyStr(focus[1]), 3)
                    ELSE Returned(None)} :
           IF tips.ok
           THEN /\ Proceed(j, "resolve")
                /\ loc' = [loc EXCEPT ![j].sport = Some(sport),
                                      ![j].generic = Some(coaching_tips(sport)),
                                      ![j].focus = focus,
                                      ![j].focus_tips = IF tips.val = None THEN None
                                                        ELSE Some(tips.val),
                                      ![j].recs = Some(MetricRules(m.metrics_calc))]
                /\ UNCHANGED JOBS
           ELSE Raise(j, "resolve", tips)
    /\ UNCHANGED <<args, files, blobs, rd, call>>

gcs_signed_get(object_name, minutes) == <<"GET", object_name, minutes>>

\* lines 303-326: the result dict; `if mc:` holds, mc having four keys.
BuildResult(j, l) ==
    [kind |-> "result",
     sport |-> l.sport[1],
     summary |-> l.generic[1].summary,
     metrics |-> [frames |-> l.meta[1].frames, width |-> l.meta[1].width,
                  height |-> l.meta[1].height, fps |-> l.meta[1].fps],
     drills |-> l.generic[1].drills,
     overlay_url |-> gcs_signed_get(result_gcs(j), 240),
     analysis |-> [metrics |-> l.meta[1].metrics_calc,
                   recommendations |-> AnalysisRecommendations(l.recs[1])],
     focus |-> l.focus,
     focus_tips |-> l.focus_tips]

\* line 313: gcs_signed_get(result_gcs, minutes=240), inside the result dict
Sign(j) ==
    /\ pc[j] = "sign"
    /\ \/ /\ Proceed(j, "sign")
          /\ loc' = [loc EXCEPT ![j].result = Some(BuildResult(j, loc[j]))]
          /\ UNCHANGED JOBS
       \/ \E e \in SignFailures : Raise(j, "sign", e)
    /\ UNCHANGED <<args, files, blobs, rd, call>>

\* StoreDoneStatus with job_id naming the job created last.
StoreDoneStatusOfLatestJob(j) ==
    /\ pc[j] = "store_status"
    /\ JOBS' = [JOBS EXCEPT ![Len(JOBS)].status = "DONE"]
    /\ Proceed(j, "store_status")
    /\ UNCHANGED <<args, loc, files, blobs, rd, call>>

\* line 328: JOBS[job_id]["status"] = "DONE"
StoreDoneStatus(j) ==
    /\ pc[j] = "store_status"
    /\ JOBS' = [JOBS EXCEPT ![j].status = "DONE"]
    /\ Proceed(j, "store_status")
    /\ UNCHANGED <<args, loc, files, blobs, rd, call>>

\* line 329: JOBS[job_id]["result"] = result; the task returns
StoreDoneResult(j) ==
    /\ pc[j] = "store_result"
    /\ JOBS' = [JOBS EXCEPT ![j].result = loc[j].result[1]]
    /\ Proceed(j, "store_result")
    /\ loc' = [loc EXCEPT ![j] = NoLocals]
    /\ UNCHANGED <<args, files, blobs, rd, call>>

\* lines 333-336 and 339: the payload of the except clause that caught e
ErrorPayload(e) ==
    IF e.cls = "CalledProcessError"
    THEN [kind |-> "error", error |-> "ffmpeg transcode failed", stderr |-> e.msg]
    ELSE [kind |-> "error", error |-> e.msg]

StoreErrorResult(j) ==
    /\ pc[j] = "error_result"
    /\ JOBS' = [JOBS EXCEPT ![j].result = ErrorPayload(loc[j].exc[1])]
    /\ pc' = [pc EXCEPT ![j] = "finished"]
    /\ loc' = [loc EXCEPT ![j] = NoLocals]
    /\ UNCHANGED <<args, ran, files, blobs, rd, call>>

process_job(j) ==
    \/ Fetch(j)
    \/ Overlay(j)
    \/ Transcode(j)
    \/ Upload(j)
    \/ Resolve(j)
    \/ Sign(j)
    \/ StoreDoneStatus(j)
    \/ StoreDoneResult(j)
    \/ StoreErrorResult(j)

----------------------------------------------------------------------------
(* main.py: status *)

\* lines 363-366, first half: j = JOBS.get(job_id); 404 if absent; else the
\* response dict is built left to right and j["status"] is read first.
StatusReadStatus(job_id) ==
    /\ rd.pc \in {"idle", "returned"}
    /\ IF job_id \in DOMAIN JOBS
       THEN rd' = [pc |-> "read_result", job |-> job_id,
                   status |-> JOBS[job_id].status]
       ELSE rd' = [pc |-> "returned", job |-> job_id, http |-> 404,
                   status |-> "", result |-> NoResult]
    /\ UNCHANGED <<JOBS, pc, args, loc, ran, files, blobs, call>>

\* line 366, second half: j["result"] is read and the response returned
StatusReadResult ==
    /\ rd.pc = "read_result"
    /\ rd' = [pc |-> "returned", job |-> rd.job, http |-> 200,
              status |-> rd.status, result |-> JOBS[rd.job].result]
    /\ UNCHANGED <<JOBS, pc, args, loc, ran, files, blobs, call>>

----------------------------------------------------------------------------
(* Calls of the pure helpers, on arguments drawn from bounded sets *)

MaxDim == 12

MaxLimit == 4

FpsValues == {24, 30}

KneeValues ==
    {None, Some(0), Some(FP(15000)), Some(FP(17000)), Some(FP(17001)),
     Some(FP(17500)), Some(FP(17800))}

ElbowValues == {None, Some(FP(0 - 5)), Some(FP(5)), Some(FP(10)), Some(FP(11)), Some(FP(15))}

StanceValues == {None, Some(0), Some(FP(50)), Some(FP(69)), Some(FP(70)), Some(FP(90))}

\* Spellings of a word that differ from it in letter case and in surrounding
\* whitespace only.
Spellings(w) ==
    { w,
      StrUpper(w),
      IF w = <<>> THEN w ELSE <<UpperChar(Head(w))>> \o Tail(w),
      <<" ">> \o w,
      w \o <<" ", "\n">>,
      <<"\t">> \o StrUpper(w) \o <<" ">> }

SportWords == {tennis, soccer, <<"t","e","n"," ","n","i","s">>, <<>>}

FocusWords == {swing, footwork, preparation, serve, <<>>}

\* <<word, argument>>: the arguments that spell the word, None spelling "".
SpelledArguments(words) ==
    UNION ({ {<<w, PyStr(x)>> : x \in Spellings(w)} : w \in words }
             \cup { {<< <<>>, PyNone >>} })

MaxLen == 5

\* All sequences over S of length at most n.
SeqsUpTo(S, n) == UNION {[1 .. k -> S] : k \in 0 .. n}

\* 1.0, 2.0, 3.0, 4.0 and None
MedianValues == {None, Some(FP(100)), Some(FP(200)), Some(FP(300)), Some(FP(400))}

Call_median ==
    /\ call = NoCall
    /\ \E xs \in SeqsUpTo(MedianValues, MaxLen) :
         call' = [fn |-> "_median", xs |-> xs, ret |-> _median(xs)]
    /\ UNCHANGED <<JOBS, pc, args, loc, ran, files, blobs, rd>>

\* Frames as the detector reports them: nobody; a body with every landmark
\* apart; a body whose left hip and knee coincide and whose hips coincide; a
\* body whose right knee and ankle coincide.
FrameWhole ==
    BodyFrame(Some(FP(17500)), Some(FP(17800)), FP(5), FP(15),
              FP(20), FP(10), FP(25), FP(20), FP(9000))

FrameHipsTogether ==
    BodyFrame(None, Some(FP(15000)), FP(0 - 5), FP(5),
              0, FP(10), FP(10), FP(5), FP(4500))

FrameRightLegFolded ==
    BodyFrame(Some(FP(17000)), None, FP(10), FP(0),
              FP(20), FP(30), FP(20), FP(15), FP(12000))

OverlayFrames == {NoBody, FrameWhole, FrameHipsTogether, FrameRightLegFolded}

Call_draw_pose_overlay ==
    /\ call = NoCall
    /\ \E fs \in SeqsUpTo(OverlayFrames, MaxLen) :
         \E video \in {[width |-> 1280, height |-> 720, fps |-> 30, frames |-> fs]} :
           call' = [fn |-> "draw_pose_overlay", video |-> video,
                    ret |-> draw_pose_overlay(video)]
    /\ UNCHANGED <<JOBS, pc, args, loc, ran, files, blobs, rd>>

MaxFootage == 32

Repeat(f, n) == [i \in 1 .. n |-> f]

\* A frame with a body, of which only the left arm matters here.
ArmFrame(arm, horiz, ang) == BodyFrame(None, None, 0, 0, 0, 0, arm, horiz, ang)

\* <<a frame that passes the hit test, a frame that fails it>>: the failing
\* frame sits on one threshold and passes the other conditions.
ArmPalettes ==
    { <<ArmFrame(FP(25), FP(20), FP(9000)), ArmFrame(FP(20), FP(20), FP(9000))>>,
      <<ArmFrame(FP(25), FP(20), FP(9000)), ArmFrame(FP(25), FP(15), FP(9000))>>,
      <<ArmFrame(FP(21), FP(16), FP(6001)), ArmFrame(FP(25), FP(20), FP(6000))>>,
      <<ArmFrame(FP(21), FP(16), FP(11999)), ArmFrame(FP(25), FP(20), FP(12000))>>,
      <<ArmFrame(FP(21), FP(16), FP(9000)), ArmFrame(FP(10), FP(5), FP(17000))>> }

\* The series process_video_and_overlay collects (frames with landmarks only).
Call_guess_sport_from_pose_series ==
    /\ call = NoCall
    /\ \E p \in ArmPalettes, h \in 0 .. MaxFootage :
         \E m \in 0 .. (MaxFootage - h) :
           \E series \in {PoseSeries(Repeat(p[2], m) \o Repeat(p[1], h))} :
             call' = [fn |-> "_guess_sport_from_pose_series", frames |-> series,
                      ret |-> _guess_sport_from_pose_series(series)]
    /\ UNCHANGED <<JOBS, pc, args, loc, ran, files, blobs, rd>>

\* The decoded frames of the object, with and without a body.
Call_detect_sport_from_gcs ==
    /\ call = NoCall
    /\ \E p \in ArmPalettes, h \in 0 .. MaxFootage :
         \E m \in 0 .. (MaxFootage - h) :
           \E n \in 0 .. (MaxFootage - h - m) :
             \E fs \in {Repeat(NoBody, n) \o Repeat(p[1], h) \o Repeat(p[2], m)} :
               call' = [fn |-> "detect_sport_from_gcs", frames |-> fs,
                        ret |-> detect_sport_from_gcs(
                                  [width |-> 1280, height |-> 720, fps |-> 30,
                                   frames |-> fs])]
    /\ UNCHANGED <<JOBS, pc, args, loc, ran, files, blobs, rd>>

\* lines 158-160: _angle(LH, LK, LA), _angle(RH, RK, RA)
Call_angle ==
    /\ call = NoCall
    /\ \E hip \in Points, knee \in Points, ankle \in Points :
         call' = [fn |-> "_angle", a |-> hip, b |-> knee, c |-> ankle,
                  ret |-> _angle(hip, knee, ankle)]
    /\ UNCHANGED <<JOBS, pc, args, loc, ran, files, blobs, rd>>

CallSimpleAutoSport ==
    /\ call = NoCall
    /\ \E w \in 1 .. MaxDim, h \in 1 .. MaxDim, fps \in FpsValues :
         call' = [fn |-> "simple_auto_sport", width |-> w, height |-> h, fps |-> fps,
                  ret |-> simple_auto_sport(w, h, fps)]
    /\ UNCHANGED <<JOBS, pc, args, loc, ran, files, blobs, rd>>

CallMetricRecommendations ==
    /\ call = NoCall
    /\ \E kl \in KneeValues, kr \in KneeValues, ed \in ElbowValues, sw \in StanceValues :
         LET mc == [knee_angle_left_median |-> kl, knee_angle_right_median |-> kr,
                    elbow_drop_median |-> ed, stance_width_ratio_median |-> sw]
         IN  call' = [fn |-> "recommendations", mc |-> mc,
                      ret |-> MetricRecommendations(mc)]
    /\ UNCHANGED <<JOBS, pc, args, loc, ran, files, blobs, rd>>

CallGetFocusRecommendations ==
    /\ call = NoCall
    /\ \E s \in SpelledArguments(SportWords), f \in SpelledArguments(FocusWords),
          limit \in (0 - MaxLimit) .. MaxLimit :
         call' = [fn |-> "get_focus_recommendations",
                  sport_word |-> s[1], sport |-> s[2],
                  focus_word |-> f[1], focus |-> f[2], limit |-> limit,
                  ret |-> get_focus_recommendations(s[2], f[2], limit)]
    /\ UNCHANGED <<JOBS, pc, args, loc, ran, files, blobs, rd>>

----------------------------------------------------------------------------
(* Specifications *)

NextPipeline ==
    \/ \E payload \in Requests : create_job(payload)
    \/ \E j \in JobIds : process_job(j)

Next ==
    \/ NextPipeline
    \/ \E j \in JobIds : StatusReadStatus(j)
    \/ StatusReadResult

NextCalls ==
    \/ CallSimpleAutoSport
    \/ CallMetricRecommendations
    \/ CallGetFocusRecommendations
    \/ Call_median
    \/ Call_draw_pose_overlay
    \/ Call_guess_sport_from_pose_series
    \/ Call_detect_sport_from_gcs
    \/ Call_angle

\* Jobs, their background tasks and the status queries.
Spec == Init /\ [][Next]_vars

\* Jobs and their background tasks alone (a status query writes nothing).
PipelineSpec == Init /\ [][NextPipeline]_vars

\* The worker threads keep running the scheduled background tasks: while some
\* task can take a step, a step of some task is taken.  (A call to a
\* collaborator returns or raises.)
FairSpec == PipelineSpec /\ WF_vars(\E j \in JobIds : process_job(j))

\* One call of a pure helper, on each argument of the bounded sets.
CallSpec == Init /\ [][NextCalls]_vars

\* Jobs, tasks and status queries as in Spec, the jobs being submitted
\* without sport and focus hints (a video that is stored, one that is not).
HintlessRequests == {r \in Requests : r.sport = PyNone /\ r.focus = PyNone}

NextStore ==
    \/ \E payload \in HintlessRequests : create_job(payload)
    \/ \E j \in JobIds : process_job(j)
    \/ \E j \in JobIds : StatusReadStatus(j)
    \/ StatusReadResult

StoreSpec == Init /\ [][NextStore]_vars


----------------------------------------------------------------------------
(* Properties *)

Created == DOMAIN JOBS

LastStage(j) == ran[j][Len(ran[j])]

Failed(j) == ran[j] # <<>> /\ ~LastStage(j).ok

\* C1: for every job the status changes at most once, from PROCESSING to
\* DONE or ERROR, and once the status is terminal neither the status nor
\* the result of the entry is written again.
C1_TerminalEntryNeverWritten ==
    [][\A j \in Created :
         /\ JOBS[j].status \in Terminal => JOBS'[j] = JOBS[j]
         /\ JOBS'[j].status # JOBS[j].status =>
              JOBS[j].status = "PROCESSING" /\ JOBS'[j].status \in Terminal]_vars

\* C2: every response of a status query is PROCESSING with no result, DONE
\* with the full result, or ERROR with its diagnostic; never a terminal status
\* without its payload, nor a payload with status PROCESSING.
C2_QueryObservesWholeStates ==
    (rd.pc = "returned" /\ rd.http = 200) =>
        \/ rd.status = "PROCESSING" /\ rd.result = NoResult
        \/ rd.status = "DONE" /\ rd.result.kind = "result"
        \/ rd.status = "ERROR" /\ rd.result.kind = "error"

\* C3: every created job whose task is run fairly eventually has a terminal
\* status, whichever stage fails or succeeds: at any time there is a later
\* time at which every job created so far is DONE or ERROR.
C3_EveryJobTerminates ==
    []<>(\A j \in Created : JOBS[j].status \in Terminal)

\* C3 witness: one job ended DONE and another ended ERROR after the failure
\* of its sport/recommendation stage.
C3_Witness ==
    \E j, k \in Created :
        /\ JOBS[j].status = "DONE" /\ pc[j] = "finished"
        /\ JOBS[k].status = "ERROR" /\ pc[k] = "finished"
        /\ LastStage(k) = [stage |-> "resolve", ok |-> FALSE]

\* C4: a job with a failed stage ends ERROR, never DONE, and the ERROR
\* payloads of jobs that failed in different stages differ.
C4_ErrorPayloadIdentifiesStage ==
    /\ \A j \in Created : Failed(j) => JOBS[j].status = "ERROR"
    /\ \A j, k \in Created :
         ( /\ pc[j] = "finished" /\ Failed(j)
           /\ pc[k] = "finished" /\ Failed(k)
           /\ LastStage(j).stage # LastStage(k).stage )
         => JOBS[j].result # JOBS[k].result

StageOrder ==
    <<"fetch", "overlay", "transcode", "upload", "resolve", "sign",
      "store_status", "store_result">>

Succeeded(j, stage) == \E i \in DOMAIN ran[j] : ran[j][i] = [stage |-> stage, ok |-> TRUE]

\* C5: the stages of a job run in the order fetch, overlay, transcode,
\* upload, sport and recommendations, signing, store write, each at most
\* once; nothing runs after a failed stage; the result object exists exactly
\* when the upload stage succeeded, and a DONE job has it.
C5_StagesInStrictSequence ==
    \A j \in JobIds :
        /\ Len(ran[j]) <= Len(StageOrder)
        /\ \A i \in DOMAIN ran[j] :
             /\ ran[j][i].stage = StageOrder[i]
             /\ ~ran[j][i].ok => i = Len(ran[j])
        /\ result_gcs(j) \in blobs <=> Succeeded(j, "upload")
        /\ tmp_out_web(j) \in files <=> Succeeded(j, "transcode")
        /\ (j \in Created /\ JOBS[j].status = "DONE") =>
             /\ result_gcs(j) \in blobs
             /\ \A i \in 1 .. 6 : Succeeded(j, StageOrder[i])

\* C5 witness: one job stopped at a failed transcode with nothing uploaded,
\* another ran every stage and is DONE.
C5_Witness ==
    \E j, k \in Created :
        /\ pc[j] = "finished" /\ LastStage(j) = [stage |-> "transcode", ok |-> FALSE]
        /\ result_gcs(j) \notin blobs
        /\ pc[k] = "finished" /\ JOBS[k].status = "DONE"

WorkingFiles(j) == {tmp_in(j), tmp_out_raw(j), tmp_out_web(j)}

\* C6: when a job has a terminal status none of its working files exists.
C6_NoWorkingFilesAtTerminal ==
    \A j \in Created :
        JOBS[j].status \in Terminal => WorkingFiles(j) \cap files = {}

\* The label the stated precedence gives: the hint, else the motion
\* heuristic on the landmark series when there is one, else the shape
\* heuristic.
LabelByPrecedence(hint, video) ==
    IF Truthy(hint) THEN hint
    ELSE IF PoseSeries(video.frames) # <<>>
    THEN PyStr(_guess_sport_from_pose_series(PoseSeries(video.frames)))
    ELSE PyStr(simple_auto_sport(video.width, video.height, video.fps))

\* C7: the sport of a DONE job is the hint when one was given, else the
\* motion heuristic's label when the video has a landmark series, else the
\* shape heuristic's label.
C7_SportByPrecedence ==
    \A j \in Created :
        JOBS[j].result.kind = "result" =>
            JOBS[j].result.sport =
                LabelByPrecedence(args[j].sport, Storage[args[j].objectPath])

\* C8: simple_auto_sport is running when width/height < 0.8, soccer when
\* width/height > 1.6 and tennis otherwise (0.8 and 1.6 included), whatever
\* the fps.
C8_ShapeHeuristic ==
    call.fn = "simple_auto_sport" =>
        /\ call.ret = (IF 10 * call.width < 8 * call.height THEN running
                       ELSE IF 10 * call.width > 16 * call.height THEN soccer
                       ELSE tennis)
        /\ \A fps \in FpsValues :
             simple_auto_sport(call.width, call.height, fps) = call.ret

\* C8 witness: a call at the boundary ratio 0.8 exactly, answered tennis.
C8_Witness ==
    /\ call.fn = "simple_auto_sport"
    /\ 10 * call.width = 8 * call.height
    /\ call.ret = tennis

Above(x, bound) == x # None /\ x[1] > bound

Below(x, bound) == x # None /\ x[1] < bound

Keep(cond, tip) == IF cond THEN <<tip>> ELSE <<>>

\* C9: the metric recommendations are the tips whose rule fires, in the
\* order bend-knees, elbow-higher, wider-base: both knee medians present and
\* > 170, elbow drop present and > 0.10, stance width present and < 0.70.
C9_MetricRecommendations ==
    call.fn = "recommendations" =>
        /\ call.ret =
             Keep(Above(call.mc.knee_angle_left_median, FP(17000))
                    /\ Above(call.mc.knee_angle_right_median, FP(17000)), BendKneesTip)
             \o Keep(Above(call.mc.elbow_drop_median, FP(10)), ElbowHigherTip)
             \o Keep(Below(call.mc.stance_width_ratio_median, FP(70)), WiderBaseTip)
        /\ Len(call.ret) <= 3

\* C9 witness: knees at 150 and 150, elbow drop 0.15, stance 0.5: the
\* elbow and stance tips, in that order, and no other.
C9_Witness ==
    /\ call.fn = "recommendations"
    /\ call.mc = [knee_angle_left_median |-> Some(FP(15000)),
                  knee_angle_right_median |-> Some(FP(15000)),
                  elbow_drop_median |-> Some(FP(15)),
                  stance_width_ratio_median |-> Some(FP(50))]
    /\ call.ret = <<ElbowHigherTip, WiderBaseTip>>

Min(a, b) == IF a <= b THEN a ELSE b

IsPrefixOfCatalog(ret, tips) ==
    /\ Len(ret) <= Len(tips)
    /\ \A i \in DOMAIN ret : ret[i] = [id |-> i - 1, text |-> tips[i]]

\* What every lookup does, whatever the limit: the placeholders, and for a
\* known pair a prefix of the catalog list with ids 0, 1, 2, ...; the words
\* are the arguments without their letter case and surrounding whitespace.
FocusLookupShape(c) ==
    /\ c.ret.ok
    /\ c.sport_word \notin DOMAIN RECOMMENDATIONS_DB =>
         c.ret.val = << [id |-> 0, text |-> GenericTip] >>
    /\ ( /\ c.sport_word \in DOMAIN RECOMMENDATIONS_DB
         /\ c.focus_word \notin DOMAIN RECOMMENDATIONS_DB[c.sport_word] ) =>
         /\ Len(c.ret.val) = 1
         /\ c.ret.val[1].id = 0
         /\ c.ret.val[1].text = NoTipsFor(c.focus_word)
    /\ ( /\ c.sport_word \in DOMAIN RECOMMENDATIONS_DB
         /\ c.focus_word \in DOMAIN RECOMMENDATIONS_DB[c.sport_word] ) =>
         IsPrefixOfCatalog(c.ret.val, RECOMMENDATIONS_DB[c.sport_word][c.focus_word])

KnownPair(c) ==
    /\ c.sport_word \in DOMAIN RECOMMENDATIONS_DB
    /\ c.focus_word \in DOMAIN RECOMMENDATIONS_DB[c.sport_word]

\* C10 as stated: for every sport, focus and limit the lookup returns the
\* placeholders or, for a known pair, at most limit entries, the first of the
\* catalog list.
C10_AtMostLimitForEveryLimit ==
    call.fn = "get_focus_recommendations" =>
        /\ FocusLookupShape(call)
        /\ KnownPair(call) => Len(call.ret.val) <= call.limit

\* C10 amended: the same, with "at most limit entries" for limit >= 0
\* (exactly min(limit, length of the list)); a negative limit drops the last
\* -limit entries of the list instead.
C10_FocusLookup ==
    call.fn = "get_focus_recommendations" =>
        /\ FocusLookupShape(call)
        /\ KnownPair(call) =>
             LET n == Len(RECOMMENDATIONS_DB[call.sport_word][call.focus_word])
             IN  Len(call.ret.val) = IF call.limit >= 0 THEN Min(call.limit, n)
                                     ELSE Max(n + call.limit, 0)

\* C10 witness: "\tTENNIS " and "Swing" with limit 2: the first two swing tips.
C10_Witness ==
    /\ call.fn = "get_focus_recommendations"
    /\ call.sport = PyStr(<<"\t">> \o StrUpper(tennis) \o <<" ">>)
    /\ call.focus = PyStr(<<"S">> \o Tail(swing))
    /\ call.limit = 2
    /\ call.ret.ok
    /\ Len(call.ret.val) = 2
    /\ call.ret.val[2] = [id |-> 1, text |-> RECOMMENDATIONS_DB[tennis][swing][2]]

----------------------------------------------------------------------------
\* The indices of xs that hold a value.
Valued(xs) == {i \in DOMAIN xs : xs[i] # None}

\* The k-th smallest value of xs (k = 1 is the least), counted with repeats.
KthSmallest(xs, k) ==
    CHOOSE v \in {xs[i][1] : i \in Valued(xs)} :
        /\ Cardinality({i \in Valued(xs) : xs[i][1] < v}) < k
        /\ Cardinality({i \in Valued(xs) : xs[i][1] <= v}) >= k

\* xs with the entries at i and i + 1 exchanged.
SwapAdjacent(xs, i) ==
    [k \in DOMAIN xs |-> IF k = i THEN xs[i + 1] ELSE IF k = i + 1 THEN xs[i] ELSE xs[k]]

\* C11: _median ignores the absent entries of its argument and returns None
\* when no value remains, the value when one remains, the middle one of the
\* sorted values when their number is odd, and the mean of the two middle
\* ones when it is even (1, 2, 3, 4 in any order give 2.5); exchanging two
\* neighbouring entries of the argument, hence any reordering, leaves the
\* result unchanged.
C11_Median ==
    call.fn = "_median" =>
        LET xs == call.xs
            n == Cardinality(Valued(xs))
        IN  /\ n = 0 => call.ret = None
            /\ n = 1 => \A i \in Valued(xs) : call.ret = xs[i]
            /\ n % 2 = 1 => call.ret = Some(KthSmallest(xs, (n + 1) \div 2))
            /\ (n > 0 /\ n % 2 = 0) =>
                  /\ call.ret # None
                  /\ 2 * call.ret[1] = KthSmallest(xs, n \div 2)
                                         + KthSmallest(xs, (n \div 2) + 1)
            /\ {xs[i] : i \in Valued(xs)} = {Some(FP(100)), Some(FP(200)),
                                              Some(FP(300)), Some(FP(400))}
                  /\ n = 4 => call.ret = Some(FP(250))
            /\ \A i \in 1 .. Len(xs) - 1 : _median(SwapAdjacent(xs, i)) = call.ret

\* 4, None, 1, 3, 2: an even number of values, unsorted, with an absent entry.
C11_Witness ==
    /\ call.fn = "_median"
    /\ call.xs = <<Some(FP(400)), None, Some(FP(100)), Some(FP(300)), Some(FP(200))>>
    /\ call.ret = Some(FP(250))

----------------------------------------------------------------------------
\* The frames of fs in which a body was detected, in order.
WithBody(fs) == SelectSeq(fs, LAMBDA f : f.body)

\* What each frame of fs yields for one aggregated field: a value, or None.
ProducedBy(fs, field) ==
    [i \in DOMAIN fs |->
        IF ~fs[i].body THEN None
        ELSE IF field = "knee_angle_left_median" THEN fs[i].knee_L
        ELSE IF field = "knee_angle_right_median" THEN fs[i].knee_R
        ELSE IF field = "elbow_drop_median" THEN Some(Max(fs[i].eh_L, fs[i].eh_R))
        ELSE IF fs[i].hip_w > 0 THEN Some((fs[i].ankle_w * FP(100)) \div fs[i].hip_w)
        ELSE None]

AggregateFields ==
    {"knee_angle_left_median", "knee_angle_right_median",
     "elbow_drop_median", "stance_width_ratio_median"}

\* C12: the four medians draw_pose_overlay returns for a frame sequence are
\* those of the sequence with every frame without a body taken out (so such
\* frames, however many and wherever inserted, change none of them), while
\* the frame count counts every frame; each median is taken over the values
\* that the frames produced for its own field, and is absent exactly when no
\* frame produced one for that field.
C12_NoBodyFramesLeaveAggregates ==
    call.fn = "draw_pose_overlay" =>
        LET fs == call.video.frames
            bare == [call.video EXCEPT !.frames = WithBody(fs)]
        IN  /\ call.ret.frames = Len(fs)
            /\ call.ret.metrics_calc = draw_pose_overlay(bare).metrics_calc
            /\ \A k \in AggregateFields :
                  /\ call.ret.metrics_calc[k] = _median(ProducedBy(fs, k))
                  /\ call.ret.metrics_calc[k] = None
                        <=> \A i \in DOMAIN fs : ProducedBy(fs, k)[i] = None

\* Frames without a body before, between and after two frames with one; no
\* frame yields a left knee angle or a stance ratio, both yield the others.
C12_Witness ==
    /\ call.fn = "draw_pose_overlay"
    /\ call.video.frames = <<NoBody, FrameHipsTogether, NoBody, FrameHipsTogether, NoBody>>
    /\ call.ret.frames = 5
    /\ call.ret.metrics_calc.knee_angle_left_median = None
    /\ call.ret.metrics_calc.stance_width_ratio_median = None
    /\ call.ret.metrics_calc.knee_angle_right_median = Some(FP(15000))
    /\ call.ret.metrics_calc.elbow_drop_median = Some(FP(5))

----------------------------------------------------------------------------
MotionCalls == {"_guess_sport_from_pose_series", "detect_sport_from_gcs"}

\* The frames a call evaluates: the whole landmark series, or the first
\* max_frames decoded frames of the object.
Evaluated(c) ==
    IF c.fn = "detect_sport_from_gcs" /\ Len(c.frames) > max_frames
    THEN SubSeq(c.frames, 1, max_frames)
    ELSE c.frames

\* The frames of fs that are hits: a body whose arm length exceeds 0.20, whose
\* horizontal reach exceeds 0.15 and whose elbow angle lies strictly between
\* 60 and 120 degrees.
HitFrames(fs) ==
    {i \in DOMAIN fs :
        /\ fs[i].body
        /\ fs[i].arm_len > FP(20)
        /\ fs[i].horiz > FP(15)
        /\ fs[i].ang > FP(6000)
        /\ fs[i].ang < FP(12000)}

----------------------------------------------------------------------------
\* The call returned an angle between 0 and 180 degrees.
AngleDefined(ret) ==
    /\ ret.ok
    /\ ret.val # None
    /\ 0 <= ret.val[1] /\ ret.val[1] <= FP(18000)

\* C14 as claimed: _angle(hip, knee, ankle) never raises, returns None exactly
\* when two of the three points coincide (hip = knee, knee = ankle or
\* hip = ankle), and an angle in [0, 180] degrees otherwise.
C14_AbsentWhenAnyTwoCoincide ==
    call.fn = "_angle" =>
        /\ call.ret.ok
        /\ call.ret.val = None
              <=> (call.a = call.b \/ call.b = call.c \/ call.a = call.c)
        /\ call.ret.val # None => AngleDefined(call.ret)

\* C14 as amended: _angle(hip, knee, ankle) never raises (the cosine is
\* clamped before the inverse cosine), returns None exactly when the knee
\* coincides with the hip or with the ankle, and an angle in [0, 180] degrees
\* otherwise: 0 degrees when hip = ankle away from the knee.
C14_KneeAngle ==
    call.fn = "_angle" =>
        /\ call.ret.ok
        /\ call.ret.val = None <=> (call.a = call.b \/ call.c = call.b)
        /\ call.ret.val # None => AngleDefined(call.ret)
        /\ (call.a = call.c /\ call.a # call.b) => call.ret.val = Some(0)

\* Hip and ankle at the same point, the knee elsewhere: the sample is 0 degrees.
C14_Witness ==
    /\ call.fn = "_angle"
    /\ call.a = <<1, 0>> /\ call.b = <<1, 2>> /\ call.c = <<1, 0>>
    /\ call.ret = Returned(Some(0))

----------------------------------------------------------------------------
\* C15: jobs are isolated in the store.  No step removes an entry; a new
\* entry appears only under the next unused id, with status PROCESSING and no
\* result, for a job whose task had not been scheduled, and no task is ever
\* scheduled or running without its entry; an existing entry changes only in
\* a step of its own job's process_job task, which is a step of no other
\* task and which leaves object_path alone; a step of a status query changes
\* nothing in the store.
C15_JobsIsolated ==
    [][ /\ \A k \in DOMAIN JOBS : k \in DOMAIN JOBS'
        /\ \A k \in DOMAIN JOBS' \ DOMAIN JOBS :
              /\ k = Len(JOBS) + 1
              /\ JOBS'[k].status = "PROCESSING"
              /\ JOBS'[k].result = NoResult
              /\ pc[k] = "none"
              /\ \A i \in DOMAIN JOBS : JOBS'[i] = JOBS[i]
        /\ \A j \in JobIds : pc'[j] # "none" => j \in DOMAIN JOBS'
        /\ \A k \in DOMAIN JOBS :
              JOBS'[k] # JOBS[k] =>
                  /\ pc'[k] # pc[k]
                  /\ \A i \in JobIds \ {k} : pc'[i] = pc[i]
                  /\ \A i \in DOMAIN JOBS \ {k} : JOBS'[i] = JOBS[i]
                  /\ JOBS'[k].object_path = JOBS[k].object_path
        /\ rd' # rd => JOBS' = JOBS
      ]_vars

\* Two jobs at once: the first has stored its terminal entry while the second
\* is past its fetch and still PROCESSING, as a query of the second reported.
C15_Witness ==
    /\ Len(JOBS) >= 2
    /\ JOBS[1].status = "DONE" /\ JOBS[1].result # NoResult
    /\ JOBS[2].status = "PROCESSING" /\ JOBS[2].result = NoResult
    /\ pc[2] \notin {"none", "fetch", "finished"}
    /\ rd.pc = "returned" /\ rd.job = 2 /\ rd.http = 200
    /\ rd.status = "PROCESSING"

====
